---- MODULE Spec2Model ----
(***************************************************************************)
(* DownGit: GitHub URL -> ZIP archive pipeline.                            *)
(*                                                                         *)
(*   parseGitHubUrl      (lib/github-parser)   pure URL parser             *)
(*   downloadRepository  (lib/github-services) job orchestrator            *)
(*   fetchDirectoryContents / addFileToZip     tree walker and fetcher     *)
(*   handleDownload / handleKeyDown            UI entry points (page.tsx)  *)
(*                                                                         *)
(* Strings are modelled as sequences of tokens; the string a sequence      *)
(* stands for is the concatenation of its tokens.  In every string the     *)
(* code searches or splits (the typed URL, repository paths, ZIP paths)    *)
(* the token "/" is the only one that contains the character '/', the      *)
(* token "github.com" is the only one that contains any part of the host   *)
(* marker, and " " is the only whitespace token, so trim, endsWith,        *)
(* includes, indexOf, split and join on the token sequence are exactly the *)
(* JavaScript operations on the concatenated string.  Request URLs and     *)
(* messages are only built and compared, never split.                      *)
(***************************************************************************)
EXTENDS Integers, Sequences, FiniteSets, TLC

VARIABLES
    url,         \* page.tsx:17    the URL input field (useState "")
    status,      \* page.tsx:18-22 {type, message, progress?}; progress is
                 \*                <<>> when undefined, <<n>> otherwise
    pc,          \* the await the running job is suspended at, or "idle"
    parsedUrl,   \* result of the last parseGitHubUrl call
    job,         \* number of handleDownload calls so far
    stack,       \* fetchDirectoryContents activations, innermost last
    file,        \* the addFileToZip activation (path, zipPath, fileInfo)
    zip,         \* entries of the job's JSZip instance
    zipFilename, \* services:34 name computed by getZipFilename
    events,      \* percents delivered to the caller in this job, in order
    requests,    \* axios.get calls issued in this job, in order
    saved,       \* FileSaver.saveAs calls of this job, in order
    seen,        \* listing rows the API returned in this job
    missing,     \* paths whose contents request answered 404 in this job
    failed,      \* files whose fetch was caught by addFileToZip, and why
    given,       \* how the typed URL was assembled (input descriptor)
    built,       \* services:48 archives handed to zip.generateAsync
    thrown       \* the listing failure fetchDirectoryContents rethrew

vars == <<url, status, pc, parsedUrl, job, stack, file, zip, zipFilename,
          events, requests, saved, seen, missing, failed, given, built,
          thrown>>

----------------------------------------------------------------------------
(* String helpers (JavaScript String / Array methods on token sequences)   *)

Slash == "/"
Space == " "
Host == "github.com"

\* String.prototype.trim: drop leading and trailing whitespace
RECURSIVE TrimStart(_)
TrimStart(s) ==
    IF s # <<>> /\ Head(s) = Space THEN TrimStart(Tail(s)) ELSE s

RECURSIVE TrimEnd(_)
TrimEnd(s) ==
    IF s # <<>> /\ s[Len(s)] = Space THEN TrimEnd(SubSeq(s, 1, Len(s) - 1)) ELSE s

Trim(s) == TrimEnd(TrimStart(s))

\* url.endsWith("/")
EndsWithSlash(s) == s # <<>> /\ s[Len(s)] = Slash

\* url.slice(0, -1)
DropLast(s) == SubSeq(s, 1, Len(s) - 1)

\* url.includes("github.com")
IncludesHost(s) == \E i \in 1..Len(s) : s[i] = Host

\* url.indexOf("github.com/"): 1-based position of the marker, 0 for "not found"
MarkerAt(s, i) == i + 1 <= Len(s) /\ s[i] = Host /\ s[i + 1] = Slash

IndexOfMarker(s) ==
    IF \E i \in 1..Len(s) : MarkerAt(s, i)
    THEN CHOOSE i \in 1..Len(s) :
            MarkerAt(s, i) /\ \A j \in 1..(i - 1) : ~MarkerAt(s, j)
    ELSE 0

\* String.prototype.split("/"): "" splits to [""], "a/" to ["a", ""]
RECURSIVE SplitSlash(_)
SplitSlash(s) ==
    IF \E i \in 1..Len(s) : s[i] = Slash
    THEN LET k == CHOOSE i \in 1..Len(s) :
                    s[i] = Slash /\ \A j \in 1..(i - 1) : s[j] # Slash
         IN  <<SubSeq(s, 1, k - 1)>> \o SplitSlash(SubSeq(s, k + 1, Len(s)))
    ELSE <<s>>

\* Array.prototype.join("/")
RECURSIVE JoinSlash(_)
JoinSlash(parts) ==
    IF parts = <<>> THEN <<>>
    ELSE IF Len(parts) = 1 THEN parts[1]
    ELSE parts[1] \o <<Slash>> \o JoinSlash(Tail(parts))

----------------------------------------------------------------------------
(* parseGitHubUrl (github-parser)                                          *)

Null == [type |-> "null"]

Address(o, r, b, p, t) ==
    [type |-> t, owner |-> o, repo |-> r, branch |-> b, path |-> p]

\* variant: the trailing "/" is kept
CleanUrl_NoStrip(u) == Trim(u)

\* lines 19-22: trim, then strip one trailing "/"
CleanUrl(u) ==
    LET t == Trim(u) IN IF EndsWithSlash(t) THEN DropLast(t) ELSE t

\* variant: a branch is read only when a path follows it (length > 4)
AddressOfParts_OffByOne(pathParts) ==
    LET owner == pathParts[1]
        repo == pathParts[2]
        marked == Len(pathParts) > 4
                  /\ pathParts[3] \in {<<"tree">>, <<"blob">>}
    IN  IF marked
        THEN Address(owner, repo, pathParts[4],
                     JoinSlash(SubSeq(pathParts, 5, Len(pathParts))),
                     IF pathParts[3] = <<"tree">> THEN "directory" ELSE "file")
        ELSE Address(owner, repo, <<"main">>, <<>>, "directory")

\* lines 43-67: the address built from the segments after the marker
AddressOfParts(pathParts) ==
    LET owner == pathParts[1]
        repo == pathParts[2]
        marked == Len(pathParts) > 3
                  /\ pathParts[3] \in {<<"tree">>, <<"blob">>}
    IN  IF marked
        THEN Address(owner, repo, pathParts[4],
                     IF Len(pathParts) > 4
                     THEN JoinSlash(SubSeq(pathParts, 5, Len(pathParts)))
                     ELSE <<>>,
                     IF pathParts[3] = <<"tree">> THEN "directory" ELSE "file")
        ELSE Address(owner, repo, <<"main">>, <<>>, "directory")

parseGitHubUrl(u) ==
    LET c == CleanUrl(u)
        startIndex == IndexOfMarker(c)
    IN  IF ~IncludesHost(c) THEN Null
        ELSE IF startIndex = 0 THEN Null
        ELSE LET pathParts == SplitSlash(SubSeq(c, startIndex + 2, Len(c)))
             IN  IF Len(pathParts) < 2 THEN Null
                 ELSE AddressOfParts(pathParts)

----------------------------------------------------------------------------
(* JSZip instance: a set of entries keyed by name                          *)

\* jszip parentFolder(): the name up to the last "/" (a trailing one aside)
ParentFolder(name) ==
    LET n == IF EndsWithSlash(name) THEN DropLast(name) ELSE name
        parts == SplitSlash(n)
    IN  IF Len(parts) < 2 THEN <<>>
        ELSE JoinSlash(SubSeq(parts, 1, Len(parts) - 1))

FolderEntry(name) ==
    [name |-> IF EndsWithSlash(name) THEN name ELSE name \o <<Slash>>,
     dir |-> TRUE, data |-> <<>>, base64 |-> FALSE]

\* jszip folderAdd(): the folder and (createFolders) every ancestor of it
RECURSIVE FolderAdd(_, _)
FolderAdd(z, name) ==
    LET e == FolderEntry(name)
        parent == ParentFolder(name)
        withParents == IF parent # <<>> THEN FolderAdd(z, parent) ELSE z
    IN  IF \E x \in withParents : x.name = e.name THEN withParents
        ELSE withParents \cup {e}

\* zip.folder(arg): no entry for an empty name
ZipFolder(z, name) == IF name = <<>> THEN z ELSE FolderAdd(z, name)

\* zip.file(name, data, {base64}): replaces an entry of the same name
ZipFile(z, name, data, b64) ==
    LET parent == ParentFolder(name)
        withParents == IF parent # <<>> THEN FolderAdd(z, parent) ELSE z
    IN  {x \in withParents : x.name # name}
        \cup {[name |-> name, dir |-> FALSE, data |-> data, base64 |-> b64]}

----------------------------------------------------------------------------
(* The GitHub REST API as the job sees it (the mocked upstream)            *)

MaxListing == 3     \* most rows one listing response carries

\* rows that may appear in the listing of a repository path: [name, type]
RepoChildren(path) ==
    IF path = <<>>
    THEN {<<"a.txt", "file">>, <<"sub", "dir">>, <<"empty", "dir">>,
          <<"link", "symlink">>}
    ELSE IF path = <<"sub">>
    THEN {<<"b.txt", "file">>, <<"mod", "submodule">>}
    ELSE {}

\* GitHubContent row of child c in the listing of path
Row(path, c) ==
    [name |-> <<c[1]>>,
     path |-> IF path = <<>> THEN <<c[1]>> ELSE path \o <<Slash, c[1]>>,
     type |-> c[2]]

\* the listings the API may answer for path: any order of any of its rows
Listings(path) ==
    LET kids == RepoChildren(path)
        n == IF Cardinality(kids) < MaxListing THEN Cardinality(kids)
             ELSE MaxListing
    IN  UNION {{[i \in 1..k |-> Row(path, f[i])] :
                    f \in {g \in [1..k -> kids] :
                            \A i, j \in 1..k : i # j => g[i] # g[j]}} :
               k \in 0..n}

\* failures of an axios.get: an HTTP status, or no response at all (code 0)
AxiosError(code) ==
    [isAxiosError |-> TRUE, hasResponse |-> code # 0, status |-> code,
     message |-> IF code = 0 THEN <<"Network Error">>
                 ELSE <<"Request failed with status code ", ToString(code)>>]

Failures == {AxiosError(c) : c \in {0, 401, 403, 404, 500}}

ShaOf(path) == <<"sha:">> \o path
RawBytes(path) == <<"bytes:">> \o path
Base64Encode(bytes) == <<"base64:">> \o bytes
Base64Decode(text) == Tail(text)

Undefined == <<"undefined">>

\* services:84 and :135
ContentsUrl(a, path) ==
    <<"https://api.github.com/repos/">> \o a.owner \o <<Slash>> \o a.repo
        \o <<"/contents/">> \o path \o <<"?ref=">> \o a.branch

\* services:143
BlobUrl(a, sha) ==
    <<"https://api.github.com/repos/">> \o a.owner \o <<Slash>> \o a.repo
        \o <<"/git/blobs/">> \o sha

\* download_url the API reports for a file that is small enough
DownloadUrl(a, path) ==
    <<"https://raw.githubusercontent.com/">> \o a.owner \o <<Slash>> \o a.repo
        \o <<Slash>> \o a.branch \o <<Slash>> \o path

\* the contents responses for a file path: download_url <<>> stands for null.
\* The contents of the repository root is a listing (an array), whose
\* name, sha and download_url read as undefined.
FileInfos(a, path) ==
    IF path = <<>>
    THEN {[name |-> Undefined, sha |-> Undefined, download_url |-> <<>>]}
    ELSE LET parts == SplitSlash(path)
         IN  {[name |-> parts[Len(parts)], sha |-> ShaOf(path),
               download_url |-> d] : d \in {<<>>, DownloadUrl(a, path)}}

\* the blob responses for a sha: none for a sha the repository does not hold
Blobs(path, sha) ==
    IF sha = Undefined THEN {}
    ELSE {[content |-> Base64Encode(RawBytes(path)), encoding |-> e] :
            e \in {"base64", "utf-8"}}

----------------------------------------------------------------------------
(* github-services: downloadRepository, fetchDirectoryContents,            *)
(* addFileToZip, getZipFilename.  A run is a record m of the job's state;  *)
(* each operator below is the code that runs between two awaits.           *)

NoFile == [path |-> <<>>, zipPath |-> <<>>,
           info |-> [name |-> <<>>, sha |-> <<>>, download_url |-> <<>>]]

Placeholder ==
    <<"Error: Could not download this file. It might be too large or inaccessible.">>

\* variant: the archive is always named after the repository alone
getZipFilename_RepoOnly(repo, path) == repo \o <<".zip">>

\* services:173-183
getZipFilename(repo, path) ==
    IF path = <<>> THEN repo \o <<".zip">>
    ELSE LET pathParts == SplitSlash(path)
         IN  repo \o <<"-">> \o pathParts[Len(pathParts)] \o <<".zip">>

\* onProgress(progress, message): page.tsx:39-41 stores it in the status
Emit(m, percent, message) ==
    [m EXCEPT !.status = [type |-> "loading", message |-> message,
                          progress |-> <<percent>>],
              !.events = Append(@, percent)]

\* await axios.get(u): the job is suspended at `kind` until the answer
Get(m, kind, u) ==
    [m EXCEPT !.requests = Append(@, [kind |-> kind, url |-> u]),
              !.pc = kind]

\* services:98
ProgressPercent(i, n) == 30 + ((i * 40) \div n)

\* variant: the parent's ZIP path is dropped
ItemZipPath_NoPrefix(zipPath, itemName) == itemName

\* services:95
ItemZipPath(zipPath, itemName) ==
    IF zipPath # <<>> THEN zipPath \o <<Slash>> \o itemName ELSE itemName

\* services:151 and :158: zipPath || fileInfo.name
FileEntryName(zipPath, info) ==
    IF zipPath # <<>> THEN zipPath ELSE info.name

\* services:164: zipPath || path.split("/").pop() || "unknown-file"
PlaceholderName(zipPath, path) ==
    LET parts == SplitSlash(path)
        last == parts[Len(parts)]
    IN  IF zipPath # <<>> THEN zipPath
        ELSE IF last # <<>> THEN last
        ELSE <<"unknown-file">>

\* variant: the raw download is always taken
UsesBlob_Never(info) == FALSE

\* services:141: !fileInfo.download_url
UsesBlob(info) == info.download_url = <<>>

\* services:115: zipPath || path
MissingFolderName(zipPath, path) ==
    IF zipPath # <<>> THEN zipPath ELSE path

\* variant: generateAsync is called a second time on the same archive
Packaging_BuildsTwice(m) ==
    [Emit(Emit(m, 70, <<"Creating ZIP file...">>),
          80, <<"Generating ZIP file...">>)
     EXCEPT !.pc = "generate", !.built = @ \o <<m.zip, m.zip>>]

\* services:40/43 and :47-48: the walk is over, generateAsync is awaited
Packaging(m) ==
    [Emit(Emit(m, 70, <<"Creating ZIP file...">>),
          80, <<"Generating ZIP file...">>)
     EXCEPT !.pc = "generate", !.built = Append(@, m.zip)]

\* services:84-87: entering fetchDirectoryContents(path, zipPath)
CallFetchDirectoryContents(m, a, path, zipPath) ==
    Get([m EXCEPT !.stack = Append(@, [path |-> path, zipPath |-> zipPath,
                                       contents |-> <<>>, i |-> 0])],
        "list", ContentsUrl(a, path))

\* services:133-137: entering addFileToZip(path, zipPath)
CallAddFileToZip(m, a, path, zipPath) ==
    Get([m EXCEPT !.file = [NoFile EXCEPT !.path = path,
                                          !.zipPath = zipPath]],
        "meta", ContentsUrl(a, path))

\* variant: every row that is not a dir is fetched as a file
IsFile_AnyOther(item) == TRUE

\* services:106: item.type === "file"
IsFile(item) == item.type = "file"

\* variant: the rows are taken from the last one to the first
ItemAt_Reversed(contents, i) == contents[Len(contents) - i]

\* services:92: contents[i], i counted from 0
ItemAt(contents, i) == contents[i + 1]

\* services:91-110: the for loop of the innermost activation, from its
\* current index up to the next await; a finished activation returns to
\* its caller, which moves on to its next row
RECURSIVE Loop(_, _)
Loop(m, a) ==
    LET d == Len(m.stack)
        f == m.stack[d]
        n == Len(f.contents)
    IN  IF f.i >= n
        THEN IF d = 1
             THEN Packaging([m EXCEPT !.stack = <<>>])
             ELSE Loop([m EXCEPT !.stack =
                            [SubSeq(m.stack, 1, d - 1)
                             EXCEPT ![d - 1].i = @ + 1]], a)
        ELSE LET item == ItemAt(f.contents, f.i)
                 itemZipPath == ItemZipPath(f.zipPath, item.name)
                 m1 == Emit(m, ProgressPercent(f.i, n),
                            <<"Processing ">> \o item.path \o <<"...">>)
             IN  IF item.type = "dir"
                 THEN CallFetchDirectoryContents(
                          [m1 EXCEPT !.zip = ZipFolder(@, itemZipPath)],
                          a, item.path, itemZipPath)
                 ELSE IF IsFile(item)
                 THEN CallAddFileToZip(m1, a, item.path, itemZipPath)
                 ELSE Loop([m1 EXCEPT !.stack[d].i = @ + 1], a)

\* addFileToZip returned: to the walker's loop, or to downloadRepository
AfterFile(m, a) ==
    LET d == Len(m.stack)
        m1 == [m EXCEPT !.file = NoFile]
    IN  IF d = 0 THEN Packaging(m1)
        ELSE Loop([m1 EXCEPT !.stack[d].i = @ + 1], a)

\* services:163-166: the placeholder entry of a failed file
AddPlaceholder(m) ==
    [m EXCEPT !.zip = ZipFile(@, PlaceholderName(m.file.zipPath, m.file.path),
                              Placeholder, FALSE)]

\* services:58-68: the error downloadRepository rethrows
MapError(error) ==
    LET Err(text) == [isAxiosError |-> FALSE, hasResponse |-> FALSE,
                      status |-> 0, message |-> <<text>>]
    IN  IF error.isAxiosError /\ error.hasResponse /\ error.status = 403
        THEN Err("GitHub API rate limit exceeded. Please try again later.")
        ELSE IF error.isAxiosError /\ error.hasResponse /\ error.status = 404
        THEN Err("Repository, folder, or file not found. Please check the URL and try again.")
        ELSE IF error.isAxiosError /\ error.hasResponse /\ error.status = 401
        THEN Err("Authentication required. Private repositories are not supported without authentication.")
        ELSE error

\* services:113: is this listing failure the "empty directory" case
IsNotFound(error) ==
    error.isAxiosError /\ error.hasResponse /\ error.status = 404

\* variant: the error is shown but the job stays suspended at its await
Fail_StaysSuspended(m, error) ==
    [m EXCEPT !.status = [type |-> "error", message |-> error.message,
                          progress |-> <<>>]]

\* page.tsx:48-54: the catch of handleDownload ends the job in error
Fail(m, error) ==
    [m EXCEPT !.status = [type |-> "error", message |-> error.message,
                          progress |-> <<>>],
              !.pc = "idle", !.stack = <<>>, !.file = NoFile]

\* variant: a single file is added under its full repository path
downloadRepository_Nested(m, a) ==
    IF a.type = "file"
    THEN CallAddFileToZip(m, a, a.path, a.path)
    ELSE CallFetchDirectoryContents(m, a, a.path, <<>>)

\* variant: the failure of a file fetch is thrown on to the caller
CatchFile_Rethrow(m, a, error) == Fail(m, MapError(error))

\* services:160-167: the catch of addFileToZip: log, add the placeholder,
\* return normally
CatchFile(m, a, error) == AfterFile(AddPlaceholder(m), a)

\* services:153
UnsupportedEncoding(encoding) ==
    [isAxiosError |-> FALSE, hasResponse |-> FALSE, status |-> 0,
     message |-> <<"Unsupported encoding: ", encoding>>]

\* services:30-44: downloadRepository up to its first await
downloadRepository(m, a) ==
    IF a.type = "file"
    THEN CallAddFileToZip(m, a, a.path, <<>>)
    ELSE CallFetchDirectoryContents(m, a, a.path, <<>>)

InvalidUrl ==
    [isAxiosError |-> FALSE, hasResponse |-> FALSE, status |-> 0,
     message |-> <<"Invalid GitHub URL. Please enter a valid GitHub repository URL.">>]

FetchingMessage(a) ==
    <<"Fetching contents from ">> \o a.owner \o <<Slash>> \o a.repo
        \o (IF a.path # <<>> THEN <<" at ">> \o a.path ELSE <<>>)
        \o <<"...">>

\* page.tsx:24-41: handleDownload up to its first await
handleDownload(u) ==
    LET m0 == [status |-> status, pc |-> "idle", stack |-> <<>>,
               file |-> NoFile, zip |-> {}, events |-> <<>>,
               requests |-> <<>>, built |-> <<>>]
        m1 == Emit(m0, 10, <<"Validating URL...">>)
        a == parseGitHubUrl(u)
    IN  IF a.type = "null" THEN Fail(m1, InvalidUrl)
        ELSE downloadRepository(Emit(m1, 30, FetchingMessage(a)), a)

\* variant: a failed listing is requested again
CatchListing_Retries(m, a, error) ==
    Get(m, "list", ContentsUrl(a, m.stack[Len(m.stack)].path))

\* variant: every listing failure is taken for an empty directory
CatchListing_SwallowsAll(m, a, error) ==
    LET d == Len(m.stack)
        f == m.stack[d]
    IN  Loop([m EXCEPT !.zip = ZipFolder(@, MissingFolderName(f.zipPath,
                                                              f.path)),
                       !.stack[d].contents = <<>>,
                       !.stack[d].i = 0], a)

\* variant: a 404 of a listing is thrown on like any other failure
CatchListing_Rethrow(m, a, error) == Fail(m, MapError(error))

\* services:111-119: the catch of fetchDirectoryContents
CatchListing(m, a, error) ==
    LET d == Len(m.stack)
        f == m.stack[d]
    IN  IF IsNotFound(error)
        THEN Loop([m EXCEPT !.zip = ZipFolder(@, MissingFolderName(f.zipPath,
                                                                   f.path)),
                            !.stack[d].contents = <<>>,
                            !.stack[d].i = 0], a)
        ELSE Fail(m, MapError(error))

\* services:48: what generateAsync resolves to: the entries, base64 decoded
Generated(z) ==
    {[name |-> e.name, dir |-> e.dir,
      data |-> IF e.base64 THEN Base64Decode(e.data) ELSE e.data] : e \in z}

GenerateError ==
    [isAxiosError |-> FALSE, hasResponse |-> FALSE, status |-> 0,
     message |-> <<"generateAsync rejected">>]

----------------------------------------------------------------------------
(* The state machine                                                       *)

MaxJobs == 2        \* handleDownload calls in one behaviour

https == <<"https:", Slash, Slash>>

RepoUrl == https \o <<Host, Slash, "o", Slash, "r">>

\* what the user types between jobs
JobUrls ==
    { RepoUrl,
      RepoUrl \o <<Slash, "tree", Slash, "main", Slash, "sub">>,
      RepoUrl \o <<Slash, "tree", Slash, "main", Slash, "x", Slash, "y">>,
      RepoUrl \o <<Slash, "blob", Slash, "main", Slash, "a.txt">>,
      RepoUrl \o <<Slash, "blob", Slash, "main", Slash, "sub", Slash, "b.txt">>,
      RepoUrl \o <<Slash, "blob", Slash, "main">>,
      <<Host, Slash, "o">>,
      <<Space>> }

\* no listing failure was thrown in this job
NoError == [isAxiosError |-> FALSE, hasResponse |-> FALSE, status |-> 0,
            message |-> <<>>]

NotGiven == [form |-> "none", scheme |-> <<>>, owner |-> <<>>, repo |-> <<>>,
             branch |-> <<>>, segs |-> <<>>, slash |-> FALSE]

Idle == [type |-> "idle", message |-> <<>>, progress |-> <<>>]

Cur == [status |-> status, pc |-> pc, stack |-> stack, file |-> file,
        zip |-> zip, events |-> events, requests |-> requests,
        built |-> built]

Apply(m) ==
    /\ status' = m.status
    /\ pc' = m.pc
    /\ stack' = m.stack
    /\ file' = m.file
    /\ zip' = m.zip
    /\ events' = m.events
    /\ requests' = m.requests
    /\ built' = m.built

Init ==
    /\ url = <<>>
    /\ status = Idle
    /\ pc = "idle"
    /\ parsedUrl = Null
    /\ job = 0
    /\ stack = <<>>
    /\ file = NoFile
    /\ zip = {}
    /\ zipFilename = <<>>
    /\ events = <<>>
    /\ requests = <<>>
    /\ saved = <<>>
    /\ seen = {}
    /\ missing = {}
    /\ failed = {}
    /\ given = NotGiven
    /\ built = <<>>
    /\ thrown = NoError

\* page.tsx:85 onChange={(e) => setUrl(e.target.value)}: the field can be
\* edited at any time, also while a job runs; the running job keeps the
\* URL it was started with.
onChange ==
    /\ \E u \in JobUrls : url' = u /\ u # url
    /\ UNCHANGED <<status, pc, parsedUrl, job, stack, file, zip, zipFilename,
                   events, requests, saved, seen, missing, failed, given,
                   built, thrown>>

\* page.tsx:24-41: one call of handleDownload, up to its first await
StartJob ==
    LET a == parseGitHubUrl(url)
    IN  /\ job < MaxJobs
        /\ Apply(handleDownload(url))
        /\ parsedUrl' = a
        /\ job' = job + 1
        /\ zipFilename' = IF a.type = "null" THEN <<>>
                          ELSE getZipFilename(a.repo, a.path)
        /\ saved' = <<>>
        /\ seen' = {}
        /\ missing' = {}
        /\ failed' = {}
        /\ thrown' = NoError
        /\ UNCHANGED <<url, given>>

\* page.tsx:89 the Download button: disabled={loading || !url.trim()}
ClickDownload ==
    /\ ~(status.type = "loading" \/ Trim(url) = <<>>)
    /\ StartJob

\* variant: the Enter key does not look at the status
handleKeyDown_Unguarded == Trim(url) # <<>> /\ StartJob

\* page.tsx:57-61 the Enter key in the input
handleKeyDown ==
    \E key \in {"Enter"} :
        /\ key = "Enter" /\ Trim(url) # <<>> /\ status.type # "loading"
        /\ StartJob

\* services:87-110: the listing arrived
ListOk ==
    /\ pc = "list"
    /\ LET d == Len(stack)
       IN  \E c \in Listings(stack[d].path) :
              /\ Apply(Loop([Cur EXCEPT !.stack[d].contents = c], parsedUrl))
              /\ seen' = seen \cup {c[k] : k \in 1..Len(c)}
    /\ UNCHANGED <<url, parsedUrl, job, zipFilename, saved, missing, failed,
                   given,
                   thrown>>

\* variant: what was collected is saved even when the listing failure is fatal
ListFailed_SavesAnyway ==
    /\ pc = "list"
    /\ \E e \in Failures :
          /\ Apply(CatchListing(Cur, parsedUrl, e))
          /\ missing' = IF IsNotFound(e)
                        THEN missing \cup {stack[Len(stack)].path}
                        ELSE missing
          /\ thrown' = IF IsNotFound(e) THEN thrown ELSE e
          /\ saved' = IF IsNotFound(e) THEN saved
                      ELSE Append(saved, [filename |-> zipFilename,
                                          content |-> Generated(zip)])
    /\ UNCHANGED <<url, parsedUrl, job, zipFilename, seen, failed, given>>

\* services:111-119: the listing request failed
ListFailed ==
    /\ pc = "list"
    /\ \E e \in Failures :
          /\ Apply(CatchListing(Cur, parsedUrl, e))
          /\ missing' = IF IsNotFound(e)
                        THEN missing \cup {stack[Len(stack)].path}
                        ELSE missing
          /\ thrown' = IF IsNotFound(e) THEN thrown ELSE e
    /\ UNCHANGED <<url, parsedUrl, job, zipFilename, saved, seen, failed, given>>

\* services:137-144, :157: the contents of a file arrived
MetaOk ==
    /\ pc = "meta"
    /\ \E info \in FileInfos(parsedUrl, file.path) :
          LET m == [Cur EXCEPT !.file.info = info]
          IN  Apply(IF UsesBlob(info)
                    THEN Get(m, "blob", BlobUrl(parsedUrl, info.sha))
                    ELSE Get(m, "raw", info.download_url))
    /\ UNCHANGED <<url, parsedUrl, job, zipFilename, saved, seen, missing,
                   failed, given,
                   thrown>>

\* services:157-158: the raw bytes arrived
RawOk ==
    /\ pc = "raw"
    /\ Apply(AfterFile([Cur EXCEPT !.zip =
                            ZipFile(@, FileEntryName(file.zipPath, file.info),
                                    RawBytes(file.path), FALSE)],
                       parsedUrl))
    /\ UNCHANGED <<url, parsedUrl, job, zipFilename, saved, seen, missing,
                   failed, given,
                   thrown>>

\* services:144-154: the blob arrived
BlobOk ==
    /\ pc = "blob"
    /\ \E b \in Blobs(file.path, file.info.sha) :
          /\ Apply(IF b.encoding = "base64"
                   THEN AfterFile([Cur EXCEPT !.zip =
                                       ZipFile(@, FileEntryName(file.zipPath,
                                                                file.info),
                                               b.content, TRUE)],
                                  parsedUrl)
                   ELSE CatchFile(Cur, parsedUrl,
                                  UnsupportedEncoding(b.encoding)))
          /\ failed' = IF b.encoding = "base64" THEN failed
                       ELSE failed \cup {[path |-> file.path,
                                          why |-> "encoding"]}
    /\ UNCHANGED <<url, parsedUrl, job, zipFilename, saved, seen, missing,
                   given,
                   thrown>>

\* services:160-167: any of the three requests of addFileToZip failed
FileFailed ==
    /\ pc \in {"meta", "raw", "blob"}
    /\ \E e \in Failures :
          /\ Apply(CatchFile(Cur, parsedUrl, e))
          /\ missing' = IF pc = "meta" /\ IsNotFound(e)
                        THEN missing \cup {file.path} ELSE missing
    /\ failed' = failed \cup {[path |-> file.path, why |-> pc]}
    /\ UNCHANGED <<url, parsedUrl, job, zipFilename, saved, seen, given,
                   thrown>>

\* services:48-54 and page.tsx:43-47: the archive was generated
GenerateOk ==
    /\ pc = "generate"
    /\ LET m == Emit(Cur, 90, <<"Starting download...">>)
       IN  /\ Apply([m EXCEPT
                !.status = [type |-> "success",
                            message |-> <<"Download complete! If your download didn't start automatically, click the button again.">>,
                            progress |-> <<100>>],
                !.events = Append(@, 100),
                !.pc = "idle"])
           /\ saved' = Append(saved, [filename |-> zipFilename,
                                      content |-> Generated(zip)])
    /\ UNCHANGED <<url, parsedUrl, job, zipFilename, seen, missing, failed,
                   given,
                   thrown>>

\* services:48, :55-68: generateAsync rejected
GenerateFailed ==
    /\ pc = "generate"
    /\ Apply(Fail(Cur, MapError(GenerateError)))
    /\ UNCHANGED <<url, parsedUrl, job, zipFilename, saved, seen, missing,
                   failed, given,
                   thrown>>

Next ==
    \/ onChange
    \/ ClickDownload
    \/ handleKeyDown
    \/ ListOk
    \/ ListFailed
    \/ MetaOk
    \/ RawOk
    \/ BlobOk
    \/ FileFailed
    \/ GenerateOk
    \/ GenerateFailed

Spec == Init /\ [][Next]_vars

----------------------------------------------------------------------------
(* parseGitHubUrl on its own: the typed URL is drawn from bounded sets     *)

MaxPathSegs == 2    \* path segments of a well-formed tree/blob URL
MaxRandomLen == 5   \* tokens of an arbitrary input
MaxLooseSegs == 3   \* segments (empty ones included) after the marker

SegNames == {<<"o">>, <<"tree">>, <<"blob">>}

RECURSIVE SeqsUpTo(_, _)
SeqsUpTo(S, n) ==
    IF n = 0 THEN {<<>>}
    ELSE LET shorter == SeqsUpTo(S, n - 1)
         IN  shorter \cup {Append(q, x) : q \in shorter, x \in S}

\* the URL a descriptor stands for
Render(g) ==
    g.scheme \o <<Host, Slash>> \o g.owner \o <<Slash>> \o g.repo
        \o (IF g.form = "root" THEN <<>>
            ELSE <<Slash, g.form, Slash>> \o g.branch
                    \o (IF g.segs = <<>> THEN <<>>
                        ELSE <<Slash>> \o JoinSlash(g.segs)))
        \o (IF g.slash THEN <<Slash>> ELSE <<>>)

WellFormed ==
    {[form |-> "root", scheme |-> sc, owner |-> o, repo |-> r,
      branch |-> <<>>, segs |-> <<>>, slash |-> sl] :
        sc \in {<<>>, https}, o \in SegNames, r \in SegNames,
        sl \in BOOLEAN}
    \cup
    {[form |-> fm, scheme |-> sc, owner |-> o, repo |-> r,
      branch |-> b, segs |-> ps, slash |-> sl] :
        fm \in {"tree", "blob"}, sc \in {https}, o \in SegNames,
        r \in {<<"o">>, <<"blob">>}, b \in SegNames,
        ps \in SeqsUpTo(SegNames, MaxPathSegs), sl \in BOOLEAN}

RandomInputs == SeqsUpTo({Space, Slash, Host, "o"}, MaxRandomLen)

LooseInputs ==
    {pre \o <<Host, Slash>> \o JoinSlash(segs) \o post :
        pre \in {<<>>, <<Space>>},
        segs \in SeqsUpTo({<<>>, <<"o">>, <<"tree">>}, MaxLooseSegs) \ {<<>>},
        post \in {<<>>, <<Slash>>}}

ParseInit ==
    /\ \/ given \in WellFormed /\ url = Render(given)
       \/ given = NotGiven /\ url \in RandomInputs \cup LooseInputs
    /\ status = Idle
    /\ pc = "idle"
    /\ parsedUrl = Null
    /\ job = 0
    /\ stack = <<>>
    /\ file = NoFile
    /\ zip = {}
    /\ zipFilename = <<>>
    /\ events = <<>>
    /\ requests = <<>>
    /\ saved = <<>>
    /\ seen = {}
    /\ missing = {}
    /\ failed = {}
    /\ built = <<>>
    /\ thrown = NoError

\* a direct call parseGitHubUrl(url)
ParseCall ==
    /\ pc = "idle" /\ job = 0
    /\ parsedUrl' = parseGitHubUrl(url)
    /\ pc' = "parsed"
    /\ UNCHANGED <<url, status, job, stack, file, zip, zipFilename, events,
                   requests, saved, seen, missing, failed, given, built,
                   thrown>>

ParseNext ==
    \/ ParseCall
    \/ ClickDownload
    \/ handleKeyDown

ParseSpec == ParseInit /\ [][ParseNext]_vars

----------------------------------------------------------------------------
(* Properties                                                              *)

Range(q) == {q[k] : k \in 1..Len(q)}

Names(z) == {e.name : e \in z}

\* the segment after the last "/" of a path, found by position
LastSegment(p) ==
    LET cuts == {k \in 1..Len(p) : p[k] = Slash}
        last == IF cuts = {} THEN 0
                ELSE CHOOSE k \in cuts : \A j \in cuts : j <= k
    IN  SubSeq(p, last + 1, Len(p))

\* a repository path relative to the requested directory
Rel(p) ==
    IF parsedUrl.path = <<>> THEN p
    ELSE SubSeq(p, Len(parsedUrl.path) + 2, Len(p))

\* the repository path an entry name of the running job stands for
AbsPath(name) ==
    IF parsedUrl.type = "file" \/ parsedUrl.path = <<>>
    THEN (IF parsedUrl.type = "file" THEN parsedUrl.path ELSE name)
    ELSE parsedUrl.path \o <<Slash>> \o name

\* markers of a requested directory whose own listing answered 404
RootMarkers ==
    IF parsedUrl.path \in missing /\ parsedUrl.path # <<>>
    THEN {SubSeq(parsedUrl.path, 1, k) \o <<Slash>> :
            k \in {j \in 1..Len(parsedUrl.path) :
                     j = Len(parsedUrl.path) \/ parsedUrl.path[j + 1] = Slash}}
    ELSE {}

\* entry names the listings of this job call for, whatever the file fetches do
ExpectedNames ==
    {Rel(r.path) : r \in {x \in seen : x.type = "file"}}
    \cup {Rel(r.path) \o <<Slash>> : r \in {x \in seen : x.type = "dir"}}
    \cup RootMarkers

DirJob == job > 0 /\ parsedUrl.type = "directory"
FileJob == job > 0 /\ parsedUrl.type = "file"
WalkOver == pc = "generate" \/ 80 \in Range(events)

NonDecreasing(q) == \A i, j \in 1..Len(q) : i < j => q[i] <= q[j]

\* C1: within one job the progress percents delivered to the caller never
\* decrease (10, 30, the walker's events, 70, 80, 90, 100).
C1_ProgressNonDecreasing == NonDecreasing(events)

\* C2: in a directory job a failing file fetch never aborts the job: an
\* error status can only come from a listing request or from archive
\* generation; a successful job holds exactly the entry names its listings
\* call for, and every failed file has the placeholder at its ZIP path.
C2_FileFailureNeverAborts ==
    DirJob =>
      /\ status.type = "error" =>
            \/ requests[Len(requests)].kind = "list"
            \/ 80 \in Range(events)
      /\ status.type = "success" =>
            /\ Names(zip) = ExpectedNames
            /\ Len(saved) = 1
            /\ Names(saved[1].content) = ExpectedNames
      /\ \A f \in failed :
            \E e \in zip :
               e.name = Rel(f.path) /\ ~e.dir /\ e.data = Placeholder

C2_Witness ==
    /\ DirJob /\ status.type = "success"
    /\ failed # {}
    /\ \E e \in zip : ~e.dir /\ e.data # Placeholder
    /\ \E e \in zip : e.name = <<"sub", Slash, "b.txt">> /\ e.data = Placeholder

NotFoundMessage ==
    <<"Repository, folder, or file not found. Please check the URL and try again.">>

\* C3: when the request for the job's own address answers 404 the job ends
\* in the not-found error and nothing is generated or saved.
C3_TopLevelNotFound ==
    (job > 0 /\ parsedUrl.type # "null" /\ parsedUrl.path \in missing) =>
        /\ status.type = "error"
        /\ status.message = NotFoundMessage
        /\ saved = <<>>

TreeT1 ==
    /\ DirJob /\ parsedUrl.path = <<>> /\ WalkOver
    /\ seen = {Row(<<>>, <<"a.txt", "file">>), Row(<<>>, <<"sub", "dir">>),
               Row(<<>>, <<"empty", "dir">>),
               Row(<<"sub">>, <<"b.txt", "file">>)}

\* C4 as stated: the tree {a.txt, sub/{b.txt}, empty/} gives exactly the
\* three entries a.txt, sub/b.txt and the marker of empty/.
C4_ExactlyThreeEntries ==
    TreeT1 => Names(zip) = {<<"a.txt">>, <<"sub", Slash, "b.txt">>,
                            <<"empty", Slash>>}

\* C4 amended: the tree {a.txt, sub/{b.txt}, empty/} gives exactly four
\* entries, the files a.txt and sub/b.txt and the directory markers of sub/
\* and empty/, whatever the order of the listings.
C4_FourEntries ==
    TreeT1 =>
      /\ Names(zip) = {<<"a.txt">>, <<"sub", Slash, "b.txt">>,
                       <<"sub", Slash>>, <<"empty", Slash>>}
      /\ Cardinality(zip) = 4
      /\ \A e \in zip : e.dir <=> e.name \in {<<"sub", Slash>>,
                                              <<"empty", Slash>>}

C4_Witness ==
    /\ TreeT1 /\ status.type = "success"
    /\ requests[2].url = ContentsUrl(parsedUrl, <<"empty">>)
    /\ Cardinality(saved[1].content) = 4

Terminal == status.type \in {"success", "error"}

\* C5: a job ends in one terminal status, success or error, which nothing
\* changes until the next job starts; progress 100 comes only with success,
\* and success only once downloadRepository returned: the archive was
\* generated and handed to saveAs after the events 90 and 100.
C5_OneTerminalStatus ==
    /\ [](/\ status.progress = <<100>> => status.type = "success"
          /\ status.type = "success" =>
                /\ status.progress = <<100>>
                /\ pc = "idle" /\ Len(saved) = 1
                /\ saved[1].content = Generated(zip)
                /\ Len(events) >= 2
                /\ events[Len(events)] = 100
                /\ events[Len(events) - 1] = 90
          /\ status.type = "error" => 100 \notin Range(events) /\ saved = <<>>
          /\ job > 0 => (Terminal <=> pc = "idle")
          /\ status.type = "loading" <=> pc \notin {"idle", "parsed"})
    /\ [][(Terminal /\ job' = job) => status' = status]_vars

C5_WitnessSuccess == job = 1 /\ status.type = "success" /\ zip # {}

\* C6 as stated: a File job's archive has exactly one entry, named by the
\* last segment of the address path.
C6_OneEntryBareName ==
    (FileJob /\ WalkOver) =>
        /\ Cardinality(zip) = 1
        /\ \A e \in zip : ~e.dir /\ e.name = LastSegment(parsedUrl.path)

\* C6 amended: a File job's archive has exactly one entry, a file entry
\* without directory nesting, named by the last segment of the address path
\* when that segment is not empty, and the placeholder entry named
\* "unknown-file" when the address path is empty; no listing is walked and
\* no marker is added.
C6_OneEntry ==
    (FileJob /\ WalkOver) =>
        /\ Cardinality(zip) = 1
        /\ \A e \in zip :
              /\ ~e.dir
              /\ Slash \notin Range(e.name)
              /\ LastSegment(parsedUrl.path) # <<>> =>
                    e.name = LastSegment(parsedUrl.path)
              /\ parsedUrl.path = <<>> =>
                    e.name = <<"unknown-file">> /\ e.data = Placeholder
              /\ e.data = Placeholder <=> failed # {}
        /\ \A k \in 1..Len(requests) : requests[k].kind # "list"
        /\ seen = {}

C6_Witness ==
    /\ FileJob /\ status.type = "success"
    /\ parsedUrl.path = <<"sub", Slash, "b.txt">>
    /\ \E e \in zip : e.name = <<"b.txt">> /\ e.data = RawBytes(parsedUrl.path)

RealContent(e) ==
    \/ ~e.base64 /\ e.data = RawBytes(AbsPath(e.name))
    \/ /\ e.base64
       /\ e.data = Base64Encode(RawBytes(AbsPath(e.name)))
       /\ Base64Decode(e.data) = RawBytes(AbsPath(e.name))

\* C7: addFileToZip follows the metadata: with download_url null the blob
\* of the entry's sha is requested and the raw URL is not, otherwise only
\* the raw URL is; a base64 blob gives a file entry that decodes to the
\* file's bytes; any other encoding gives the placeholder for that file
\* only, the other files keep their content and the job is not aborted.
C7_RetrievalFollowsMetadata ==
    job > 0 =>
      /\ pc = "blob" =>
            /\ file.info.download_url = <<>>
            /\ requests[Len(requests)] =
                  [kind |-> "blob", url |-> BlobUrl(parsedUrl, file.info.sha)]
      /\ pc = "raw" =>
            /\ file.info.download_url # <<>>
            /\ requests[Len(requests)] =
                  [kind |-> "raw", url |-> file.info.download_url]
      /\ \A k \in 1..Len(requests) :
            requests[k].kind \in {"raw", "blob"} =>
                k > 1 /\ requests[k - 1].kind = "meta"
      /\ \A e \in zip :
            ~e.dir =>
               /\ e.data = Placeholder <=>
                     AbsPath(e.name) \in {f.path : f \in failed}
               /\ e.data # Placeholder => RealContent(e)
      /\ \A f \in failed :
            f.why = "encoding" =>
               /\ \E e \in zip : AbsPath(e.name) = f.path /\ e.data = Placeholder
               /\ status.type = "error" =>
                     \/ requests[Len(requests)].kind = "list"
                     \/ 80 \in Range(events)

C7_Witness ==
    /\ status.type = "success"
    /\ \E f \in failed : f.why = "encoding"
    /\ \E e \in zip : e.base64
    /\ \E e \in saved[1].content : e.data = RawBytes(<<"a.txt">>)

\* the address a well-formed URL stands for
Reference(g) ==
    IF g.form = "root"
    THEN [type |-> "directory", owner |-> g.owner, repo |-> g.repo,
          branch |-> <<"main">>, path |-> <<>>]
    ELSE [type |-> IF g.form = "blob" THEN "file" ELSE "directory",
          owner |-> g.owner, repo |-> g.repo, branch |-> g.branch,
          path |-> JoinSlash(g.segs)]

Parsed == pc = "parsed" \/ job > 0

\* C8: on every well-formed URL parseGitHubUrl returns the address the URL
\* stands for (root form: branch main, empty path, directory; tree form:
\* directory; blob form: file), and whatever the input the kind is file
\* only when a "/blob/" segment was typed.
C8_ParserAgreesWithReference ==
    Parsed =>
      /\ given.form # "none" => parsedUrl = Reference(given)
      /\ parsedUrl.type = "file" =>
            \E k \in 2..(Len(url) - 1) :
               url[k - 1] = Slash /\ url[k] = "blob" /\ url[k + 1] = Slash

C8_Witness ==
    /\ pc = "parsed" /\ given.form = "blob" /\ given.slash
    /\ Len(given.segs) = 2
    /\ parsedUrl.type = "file"
    /\ parsedUrl.path = <<"o", Slash, "tree">>
    /\ parsedUrl.branch = <<"blob">>

\* the typed input by position: its first and last non-blank token, and its
\* end once one trailing "/" is dropped
FirstInk(u) ==
    IF \E k \in 1..Len(u) : u[k] # Space
    THEN CHOOSE k \in 1..Len(u) :
            u[k] # Space /\ \A j \in 1..(k - 1) : u[j] = Space
    ELSE 1

LastInk(u) ==
    IF \E k \in 1..Len(u) : u[k] # Space
    THEN CHOOSE k \in 1..Len(u) :
            u[k] # Space /\ \A j \in (k + 1)..Len(u) : u[j] = Space
    ELSE 0

EndOf(u) ==
    IF LastInk(u) >= FirstInk(u) /\ u[LastInk(u)] = Slash
    THEN LastInk(u) - 1 ELSE LastInk(u)

Markers(u) ==
    {k \in FirstInk(u)..(EndOf(u) - 1) : u[k] = Host /\ u[k + 1] = Slash}

\* lacks "github.com/", or has fewer than 2 segments after it, or is blank
Malformed(u) ==
    \/ Markers(u) = {}
    \/ LET first == CHOOSE k \in Markers(u) : \A j \in Markers(u) : k <= j
       IN  \A k \in (first + 2)..EndOf(u) : u[k] # Slash

\* C9: parseGitHubUrl returns null for every input that lacks "github.com/"
\* after trimming and stripping one trailing slash, has fewer than 2
\* segments after the marker, or is blank; handleDownload then ends in the
\* invalid-URL error and issues no request.
C9_MalformedIsFailure ==
    (Parsed /\ Malformed(url)) =>
        /\ parsedUrl.type = "null"
        /\ job > 0 =>
              /\ status.type = "error"
              /\ status.message = InvalidUrl.message
              /\ requests = <<>>
              /\ pc = "idle"
              /\ saved = <<>>

C9_Witness ==
    /\ job = 1 /\ url = <<Space, Host, Slash, "o", Slash>>
    /\ Malformed(url)
    /\ status.type = "error" /\ parsedUrl.type = "null"

\* C10: every address parseGitHubUrl returns has a non-empty owner and a
\* non-empty repo.
C10_OwnerAndRepoNonEmpty ==
    (Parsed /\ parsedUrl.type # "null") =>
        parsedUrl.owner # <<>> /\ parsedUrl.repo # <<>>

\* the archive name an address calls for, its last segment found by position
ExpectedFilename(a) ==
    IF a.path = <<>> THEN a.repo \o <<".zip">>
    ELSE a.repo \o <<"-">> \o LastSegment(a.path) \o <<".zip">>

\* C11: the filename handed to saveAs is "{repo}.zip" when the address path
\* is empty and "{repo}-{last path segment}.zip" otherwise, for Directory
\* and File addresses alike, whatever the listings held and whatever the
\* fetches answered.
C11_FilenameFromRepoAndPath ==
    (job > 0 /\ parsedUrl.type # "null") =>
        /\ zipFilename = ExpectedFilename(parsedUrl)
        /\ \A k \in 1..Len(saved) :
              saved[k].filename = ExpectedFilename(parsedUrl)

C11_Witness ==
    /\ DirJob /\ status.type = "success" /\ failed # {}
    /\ parsedUrl.path = <<"sub">>
    /\ url = RepoUrl
    /\ saved[1].filename = <<"r", "-", "sub", ".zip">>

\* the message the job must show for a failure of the given HTTP status
MessageFor(error) ==
    IF error.hasResponse /\ error.status = 403
    THEN <<"GitHub API rate limit exceeded. Please try again later.">>
    ELSE IF error.hasResponse /\ error.status = 401
    THEN <<"Authentication required. Private repositories are not supported without authentication.">>
    ELSE error.message

\* C12: a listing request that fails with anything but HTTP 404, at the root
\* or at any depth, is fatal: every enclosing fetchDirectoryContents is left,
\* no further request is issued, generateAsync and saveAs are not called,
\* and the job ends in error with the message of the status (403 rate
\* limit, 401 authentication required, otherwise the failure's own message).
C12_ListingFailureIsFatal ==
    /\ [](thrown # NoError =>
             /\ status.type = "error"
             /\ status.message = MessageFor(thrown)
             /\ pc = "idle" /\ stack = <<>>
             /\ requests[Len(requests)].kind = "list"
             /\ built = <<>> /\ saved = <<>>
             /\ 70 \notin Range(events) /\ 80 \notin Range(events))
    /\ [][(pc = "list" /\ thrown' # thrown /\ job' = job) =>
             /\ ~IsNotFound(thrown')
             /\ requests' = requests /\ events' = events /\ zip' = zip]_vars

C12_Witness ==
    /\ thrown = AxiosError(403) /\ status.type = "error"
    /\ Len(requests) = 3
    /\ requests[3].url = ContentsUrl(parsedUrl, <<"sub">>)
    /\ \E e \in zip : ~e.dir

\* the directory marker of a ZIP path
MarkerOf(zipPath) ==
    [name |-> zipPath \o <<Slash>>, dir |-> TRUE, data |-> <<>>,
     base64 |-> FALSE]

\* C13: the marker of every dir row is in the archive before that row's
\* listing is requested and while it is walked; whether the listing holds
\* rows, is empty or answers 404, the marker is in the final archive; a 404
\* of a nested listing does not end the job and the walk goes on with the
\* row's next sibling.
C13_MarkerBeforeListing ==
    /\ [](DirJob =>
             /\ \A d \in 2..Len(stack) : MarkerOf(stack[d].zipPath) \in zip
             /\ WalkOver =>
                   \A r \in seen :
                      r.type = "dir" => MarkerOf(Rel(r.path)) \in zip
             /\ status.type = "success" =>
                   \A r \in seen :
                      r.type = "dir" =>
                         \E e \in saved[1].content :
                            e.dir /\ e.name = Rel(r.path) \o <<Slash>>)
    /\ [][(pc = "list" /\ Len(stack) >= 2 /\ missing' # missing) =>
             LET d == Len(stack)
                 parent == stack[d - 1]
                 n == Len(parent.contents)
             IN  /\ status'.type = "loading"
                 /\ MarkerOf(stack[d].zipPath) \in zip'
                 /\ zip \subseteq zip'
                 /\ Len(events') > Len(events)
                 /\ parent.i + 1 < n =>
                       events'[Len(events) + 1] =
                          ProgressPercent(parent.i + 1, n)
                 /\ (parent.i + 1 = n /\ d = 2) =>
                       events'[Len(events) + 1] = 70]_vars

C13_Witness ==
    /\ DirJob /\ status.type = "success" /\ parsedUrl.path = <<>>
    /\ missing = {<<"sub">>}
    /\ Len(requests) >= 3
    /\ requests[2].url = ContentsUrl(parsedUrl, <<"sub">>)
    /\ requests[3].url = ContentsUrl(parsedUrl, <<"a.txt">>)
    /\ MarkerOf(<<"sub">>) \in zip
    /\ \E e \in saved[1].content : e.name = <<"a.txt">>

\* the repository paths at and below a path
RECURSIVE Subtree(_)
Subtree(p) ==
    {p} \cup UNION {Subtree(Row(p, c).path) : c \in RepoChildren(p)}

\* the requests a row and its subtree can give rise to
UrlsOf(row) ==
    UNION {{ContentsUrl(parsedUrl, q), DownloadUrl(parsedUrl, q),
            BlobUrl(parsedUrl, ShaOf(q))} : q \in Subtree(row.path)}

\* positions in the request log that belong to a row or its subtree
RequestsOf(row) == {x \in 1..Len(requests) : requests[x].url \in UrlsOf(row)}

\* archive entries at or below the ZIP path of a row
EntriesOf(zipPath) ==
    {e \in zip : \/ e.name = zipPath
                 \/ /\ Len(e.name) > Len(zipPath)
                    /\ SubSeq(e.name, 1, Len(zipPath) + 1) =
                          zipPath \o <<Slash>>}

Awaiting == pc \in {"list", "meta", "raw", "blob"}

\* row k of activation d: walked to its end, being walked, or not begun
RowOrder(d, k) ==
    LET f == stack[d]
        row == f.contents[k]
        zp == ItemZipPath(f.zipPath, row.name)
    IN  /\ k <= f.i =>
              /\ row.type = "file" =>
                    \E e \in zip : e.name = zp /\ ~e.dir
              /\ row.type = "dir" =>
                    /\ MarkerOf(zp) \in zip
                    /\ \E x \in RequestsOf(row) :
                          requests[x] =
                             [kind |-> "list",
                              url |-> ContentsUrl(parsedUrl, row.path)]
              /\ row.type \notin {"file", "dir"} =>
                    RequestsOf(row) = {} /\ EntriesOf(zp) = {}
        /\ k = f.i + 1 =>
              /\ RequestsOf(row) # {}
              /\ Len(requests) \in RequestsOf(row)
              /\ IF d < Len(stack)
                 THEN row.type = "dir" /\ stack[d + 1].path = row.path
                 ELSE row.type = "file" /\ file.path = row.path
        /\ k > f.i + 1 => RequestsOf(row) = {} /\ EntriesOf(zp) = {}
        /\ \A j \in 1..(k - 1) :
              \A x \in RequestsOf(f.contents[j]), y \in RequestsOf(row) :
                 x < y

\* C14: at most one request is outstanding, and the walk is sequential and
\* depth first in listing order: a request is issued only by the step that
\* received the answer of the one before; in every activation the rows
\* before the current one are walked to their end, the rows after it have
\* no request and no archive entry, the requests of an earlier sibling's
\* subtree all come before those of a later sibling, and the last event is
\* the progress event of the row being walked.
C14_SequentialDepthFirst ==
    /\ [](job > 0 =>
             /\ Awaiting =>
                   /\ requests # <<>>
                   /\ requests[Len(requests)].kind = pc
             /\ \A d \in 1..Len(stack) :
                   \A k \in 1..Len(stack[d].contents) : RowOrder(d, k)
             /\ \A d \in 1..Len(stack) :
                   stack[d].contents # <<>> =>
                      /\ stack[d].i < Len(stack[d].contents)
                      /\ d = Len(stack) \/ stack[d + 1].contents = <<>> =>
                            events[Len(events)] =
                               ProgressPercent(stack[d].i,
                                               Len(stack[d].contents)))
    /\ [][job' = job =>
             /\ Len(requests') <= Len(requests) + 1
             /\ Len(requests') > Len(requests) =>
                   Awaiting /\ Awaiting'
                   /\ SubSeq(requests', 1, Len(requests)) = requests]_vars

C14_Witness ==
    /\ DirJob /\ pc = "meta" /\ Len(stack) = 2
    /\ stack[1].i = 1 /\ Len(stack[1].contents) = 3
    /\ stack[1].contents[1].type = "file"
    /\ stack[1].contents[3].type = "dir"
    /\ file.path = <<"sub", Slash, "b.txt">>
    /\ Len(requests) >= 4

\* the job failed before the archive stage: invalid URL or fatal listing
Aborted ==
    status.type = "error" /\ (parsedUrl.type = "null" \/ thrown # NoError)

\* C15: a job that does not abort calls zip.generateAsync exactly once, when
\* the walker or the single-file path has returned and right after the
\* events 70 and 80; nothing is added to the archive once the build has
\* started, and what is saved is the build of exactly that archive; a job
\* that aborts never calls generateAsync, and a job in error has no archive.
C15_BuiltOnceAfterWalk ==
    /\ [](job > 0 =>
             /\ Len(built) <= 1
             /\ pc = "generate" => Len(built) = 1
             /\ status.type = "success" =>
                   /\ Len(built) = 1
                   /\ saved[1].content = Generated(built[1])
             /\ built # <<>> =>
                   /\ stack = <<>> /\ file = NoFile /\ ~Awaiting
                   /\ built[1] = zip
                   /\ \E k \in 2..Len(events) :
                         /\ events[k - 1] = 70 /\ events[k] = 80
                         /\ \A j \in 1..(k - 2) : events[j] < 70
             /\ Aborted => built = <<>>
             /\ status.type = "error" =>
                   /\ saved = <<>>
                   /\ built # <<>> => status.message = GenerateError.message
             /\ (Terminal /\ ~Aborted) => Len(built) = 1)
    /\ [][(built # <<>> /\ job' = job) =>
             zip' = zip /\ built' = built /\ requests' = requests]_vars

C15_Witness ==
    /\ DirJob /\ status.type = "success"
    /\ Len(built) = 1 /\ Cardinality(built[1]) >= 3
    /\ missing # {} /\ failed # {}

\* does the sequence q start with p followed by a "/"
UnderPath(p, q) ==
    /\ Len(q) > Len(p)
    /\ SubSeq(q, 1, Len(p) + 1) = p \o <<Slash>>

\* C16: in a Directory job every name added to the archive, file entry or
\* marker, the marker of a listing that answered 404 included, is relative
\* to the requested directory: no leading "/", equal to the "/"-join of the
\* row names from the requested directory down to a listed file or dir row,
\* and never prefixed by the requested directory's own repository path.
C16_PathsRelativeToRequested ==
    DirJob =>
      \A e \in zip :
         /\ e.name # <<>> /\ e.name[1] # Slash
         /\ \E r \in seen :
               \/ r.type = "file" /\ ~e.dir /\ e.name = Rel(r.path)
               \/ r.type = "dir" /\ e.dir
                     /\ e.name = Rel(r.path) \o <<Slash>>
         /\ parsedUrl.path # <<>> => ~UnderPath(parsedUrl.path, e.name)

Opaque(r) == r.type \notin {"file", "dir"}

HasOpaque(c) == \E k \in 1..Len(c) : Opaque(c[k])

\* a listing, an activation and a job state without their opaque rows
StripRows(c) == SelectSeq(c, LAMBDA r : ~Opaque(r))

StripFrame(f) ==
    [f EXCEPT !.contents = StripRows(f.contents),
              !.i = Len(StripRows(SubSeq(f.contents, 1, f.i)))]

RECURSIVE StripStack(_)
StripStack(st) ==
    IF st = <<>> THEN <<>>
    ELSE Append(StripStack(SubSeq(st, 1, Len(st) - 1)),
                StripFrame(st[Len(st)]))

Strip(m) == [m EXCEPT !.stack = StripStack(m.stack)]

\* two job states that differ in progress events and opaque rows only
SameButEvents(m1, m2) ==
    /\ m1.zip = m2.zip /\ m1.built = m2.built
    /\ m1.pc = m2.pc /\ m1.file = m2.file
    /\ m1.requests = m2.requests
    /\ m1.status.type = m2.status.type
    /\ StripStack(m1.stack) = StripStack(m2.stack)

\* C17: a symlink or submodule row is skipped without error: it gets its
\* progress event, no request is issued for it and nothing is added to the
\* archive for it, and the walk goes on; whatever answer the job receives
\* next, its requests, archive and outcome are those of the same job with
\* the opaque rows absent from every listing.
C17_OpaqueRowsSkipped ==
    /\ [](DirJob =>
             /\ \A r \in seen :
                   Opaque(r) =>
                      /\ RequestsOf(r) = {}
                      /\ EntriesOf(Rel(r.path)) = {}
                      /\ r.path \notin {f.path : f \in failed}
             /\ pc = "generate" => Len(events) = Cardinality(seen) + 4
             /\ WalkOver => Names(zip) = ExpectedNames
             /\ pc = "list" =>
                   LET d == Len(stack)
                       walked == \E k \in 1..d : HasOpaque(stack[k].contents)
                   IN  /\ \A c \in Listings(stack[d].path) :
                             (walked \/ HasOpaque(c)) =>
                                SameButEvents(
                                   Loop([Cur EXCEPT !.stack[d].contents = c],
                                        parsedUrl),
                                   Loop([Strip(Cur) EXCEPT
                                            !.stack[d].contents =
                                               StripRows(c)],
                                        parsedUrl))
                       /\ walked =>
                             SameButEvents(
                                CatchListing(Cur, parsedUrl, AxiosError(404)),
                                CatchListing(Strip(Cur), parsedUrl,
                                             AxiosError(404)))
             /\ (pc \in {"meta", "raw", "blob"}
                 /\ \E k \in 1..Len(stack) : HasOpaque(stack[k].contents)) =>
                   SameButEvents(
                      CatchFile(Cur, parsedUrl, AxiosError(500)),
                      CatchFile(Strip(Cur), parsedUrl, AxiosError(500))))
    /\ [][(DirJob /\ pc = "list" /\ Len(stack) = 1 /\ job' = job
            /\ seen' # seen /\ \A r \in seen' : Opaque(r)) =>
             /\ zip' = zip /\ requests' = requests
             /\ pc' = "generate"
             /\ Len(events') = Len(events) + Cardinality(seen') + 2
             /\ \A k \in 1..Cardinality(seen') :
                   events'[Len(events) + k] =
                      ProgressPercent(k - 1, Cardinality(seen'))]_vars

C17_Witness ==
    /\ DirJob /\ status.type = "success" /\ parsedUrl.path = <<>>
    /\ \E r \in seen : r.type = "symlink"
    /\ \E r \in seen : r.type = "submodule"
    /\ \E e \in zip : e.name = <<"sub", Slash, "b.txt">>
    /\ Len(events) = Cardinality(seen) + 6
    /\ requests[Len(requests)].url # ContentsUrl(parsedUrl, <<"sub">>)

\* every URL a job on the requested address can ask for: the tree is finite
JobUrlSpace ==
    UNION {{ContentsUrl(parsedUrl, q)}
           \cup {BlobUrl(parsedUrl, f.sha) : f \in FileInfos(parsedUrl, q)}
           \cup {f.download_url : f \in FileInfos(parsedUrl, q)}
              : q \in Subtree(parsedUrl.path)} \ {<<>>}

\* C18: a started job always finishes.  While the status is loading the job
\* is suspended at a request or at generateAsync, never at nothing; every
\* step but an edit of the URL field is an answer, and an edit leaves the
\* job as it is; every answer either ends the job, or starts the
\* generation, or issues a request for a URL of the finite tree that this
\* job has not asked before, and the end of the generation ends the job:
\* after at most as many answers as the tree has URLs, plus one, the status
\* is success or error.
C18_JobAlwaysFinishes ==
    /\ [](job > 0 =>
             /\ status.type = "loading" <=> (Awaiting \/ pc = "generate")
             /\ status.type # "loading" => Terminal
             /\ pc = "list" => stack # <<>>
             /\ parsedUrl.type = "null" => requests = <<>> /\ Terminal
             /\ parsedUrl.type # "null" =>
                   LET asked == {requests[x].url : x \in 1..Len(requests)}
                   IN  /\ asked \subseteq JobUrlSpace
                       /\ Cardinality(asked) = Len(requests)
                       /\ Len(stack) <= Cardinality(Subtree(parsedUrl.path)))
    /\ [][(status.type = "loading" /\ job' = job /\ url' = url) =>
             \/ Terminal'
             \/ Awaiting /\ pc' = "generate"
             \/ /\ Awaiting /\ Awaiting'
                /\ Len(requests') = Len(requests) + 1]_vars
    /\ [][(status.type = "loading" /\ url' # url) =>
             /\ status' = status /\ pc' = pc /\ requests' = requests
             /\ stack' = stack /\ job' = job]_vars

C18_Witness ==
    /\ DirJob /\ status.type = "success" /\ parsedUrl.path = <<>>
    /\ Len(requests) = 7
    /\ missing # {}

\* C19: jobs never overlap: handleDownload starts only from idle, success or
\* error, with no job suspended and a URL input that is not blank; while
\* the status is loading neither the button nor the Enter key starts one, so
\* the events of a job are its own, from its one event 10 on, and the
\* address and archive name of the running job are not replaced.
C19_JobsNeverOverlap ==
    /\ [](job > 0 =>
             /\ events # <<>> /\ events[1] = 10
             /\ \A k \in 2..Len(events) : events[k] # 10
             /\ Len(saved) <= 1)
    /\ [][job' # job =>
             /\ job' = job + 1
             /\ status.type \in {"idle", "success", "error"}
             /\ ~Awaiting /\ pc # "generate"
             /\ \E k \in 1..Len(url) : url[k] # Space
             /\ url' = url
             /\ status'.type \in {"loading", "error"}
             /\ Len(requests') <= 1 /\ saved' = <<>>]_vars
    /\ [][(status.type = "loading" /\ status'.type = "loading") =>
             job' = job /\ parsedUrl' = parsedUrl
             /\ zipFilename' = zipFilename]_vars

C19_Witness ==
    /\ job = 2 /\ status.type = "loading" /\ pc = "meta"
    /\ parsedUrl.path = <<"sub">>
    /\ Len(requests) = 2 /\ events[1] = 10

\* C20: FileSaver.saveAs is called at most once in a job, by the step that
\* receives the generated archive, after the event 80 and right after the
\* event 90, with the build of the job's archive; a job in error has saved
\* nothing: after a fatal listing failure the entries collected so far are
\* dropped with the archive.
C20_SavedOnceAfterGeneration ==
    /\ [](job > 0 =>
             /\ Len(saved) <= 1
             /\ saved # <<>> =>
                   /\ status.type = "success"
                   /\ Len(built) = 1
                   /\ saved[1] = [filename |-> zipFilename,
                                  content |-> Generated(built[1])]
                   /\ \E i, j \in 1..Len(events) :
                         /\ i < j /\ events[i] = 80 /\ events[j] = 90
                         /\ \A k \in 1..Len(events) :
                               /\ events[k] = 80 => k = i
                               /\ events[k] = 90 => k = j
             /\ status.type = "error" => saved = <<>>
             /\ thrown # NoError => saved = <<>>)
    /\ [][(saved' # saved /\ job' = job) =>
             /\ pc = "generate" /\ pc' = "idle"
             /\ saved = <<>> /\ Len(saved') = 1
             /\ 80 \in Range(events) /\ 90 \notin Range(events)
             /\ events' = events \o <<90, 100>>
             /\ zip' = zip]_vars

C20_Witness ==
    /\ DirJob /\ status.type = "error" /\ thrown = AxiosError(500)
    /\ \E e \in zip : ~e.dir /\ e.data = RawBytes(<<"a.txt">>)
    /\ \E e \in zip : e.dir
    /\ saved = <<>>

====
